---- MODULE Spec2Model ----
(***************************************************************************)
(* A model of obsidian-to-org (src/src/obsidian_to_org/__main__.py).       *)
(*                                                                         *)
(* Texts are TLA+ strings, read character by character with SubSeq, so the *)
(* text rewrites are computed on the same characters the Python code sees. *)
(* The regular expressions of the source are kept as data (a sequence of   *)
(* nodes, one per construct of the pattern) and run by a backtracking      *)
(* matcher that lists the matches in the order Python's re tries them.     *)
(***************************************************************************)
EXTENDS Integers, Sequences, FiniteSets, TLC

(***************************************************************************)
(* Python str operations                                                   *)
(***************************************************************************)

\* s[i] (1-based), "" past the end.
ch(s, i) == IF 1 <= i /\ i <= Len(s) THEN SubSeq(s, i, i) ELSE ""

\* s[i:] (1-based i).
from(s, i) == SubSeq(s, i, Len(s))

\* str.startswith
startswith(s, p) == Len(s) >= Len(p) /\ SubSeq(s, 1, Len(p)) = p

\* str.endswith
endswith(s, p) == Len(s) >= Len(p) /\ SubSeq(s, Len(s) - Len(p) + 1, Len(s)) = p

\* Whether sub occurs in s at position i.
at(s, sub, i) == i >= 1 /\ i + Len(sub) - 1 <= Len(s) /\ SubSeq(s, i, i + Len(sub) - 1) = sub

\* str.find from position i (1-based): the first position >= i where sub
\* occurs, 0 when there is none.  sub is never empty here.
RECURSIVE find(_, _, _)
find(s, sub, i) ==
    IF i + Len(sub) - 1 > Len(s) THEN 0
    ELSE IF at(s, sub, i) THEN i
    ELSE find(s, sub, i + 1)

\* sub in s
contains(s, sub) == find(s, sub, 1) # 0

\* str.rfind: the last position where the one-character c occurs, 0 if none.
RECURSIVE rfind(_, _, _)
rfind(s, c, i) ==
    IF i < 1 THEN 0
    ELSE IF ch(s, i) = c THEN i
    ELSE rfind(s, c, i - 1)

\* str.replace(old, new): leftmost non-overlapping occurrences.
RECURSIVE replace_from(_, _, _, _)
replace_from(s, old, new, i) ==
    IF i > Len(s) THEN ""
    ELSE IF at(s, old, i) THEN new \o replace_from(s, old, new, i + Len(old))
    ELSE ch(s, i) \o replace_from(s, old, new, i + 1)

replace(s, old, new) == replace_from(s, old, new, 1)

\* str.split(sep): always at least one piece.
RECURSIVE split(_, _)
split(s, sep) ==
    LET k == find(s, sep, 1) IN
    IF k = 0 THEN <<s>>
    ELSE <<SubSeq(s, 1, k - 1)>> \o split(from(s, k + Len(sep)), sep)

\* sep.join(parts)
RECURSIVE join(_, _)
join(sep, parts) ==
    IF Len(parts) = 0 THEN ""
    ELSE IF Len(parts) = 1 THEN parts[1]
    ELSE parts[1] \o sep \o join(sep, Tail(parts))

\* The characters str.strip() removes and \s matches, as far as a TLA+
\* string can hold them.
Whitespace == {" ", "\t", "\n", "\r", "\f"}

RECURSIVE lstrip(_)
lstrip(s) == IF Len(s) > 0 /\ ch(s, 1) \in Whitespace THEN lstrip(from(s, 2)) ELSE s

RECURSIVE rstrip(_)
rstrip(s) ==
    IF Len(s) > 0 /\ ch(s, Len(s)) \in Whitespace THEN rstrip(SubSeq(s, 1, Len(s) - 1)) ELSE s

strip(s) == lstrip(rstrip(s))

\* The line boundaries of str.splitlines, as far as a TLA+ string can hold
\* them ("\r\n" counts as one boundary).
LineBreaks == {"\n", "\r", "\f"}

\* The position of the last character of the line that starts at i.
RECURSIVE line_end(_, _)
line_end(s, i) ==
    IF i > Len(s) THEN Len(s)
    ELSE IF ch(s, i) = "\r" /\ ch(s, i + 1) = "\n" THEN i + 1
    ELSE IF ch(s, i) \in LineBreaks THEN i
    ELSE line_end(s, i + 1)

\* str.splitlines(True): the lines, each with its line ending.
RECURSIVE splitlines_keep(_)
splitlines_keep(s) ==
    IF Len(s) = 0 THEN <<>>
    ELSE LET e == line_end(s, 1) IN <<SubSeq(s, 1, e)>> \o splitlines_keep(from(s, e + 1))

\* "".join of a sequence of strings.
RECURSIVE concat(_)
concat(parts) == IF Len(parts) = 0 THEN "" ELSE Head(parts) \o concat(Tail(parts))

\* The concatenation of a sequence of sequences.
RECURSIVE ConcatAll(_)
ConcatAll(ss) == IF Len(ss) = 0 THEN <<>> ELSE Head(ss) \o ConcatAll(Tail(ss))

(***************************************************************************)
(* Python re: patterns as data, matched by backtracking                    *)
(***************************************************************************)

\* A character class: the characters of cs, or (neg) every other character.
In(cs) == [neg |-> FALSE, cs |-> cs]
NotIn(cs) == [neg |-> TRUE, cs |-> cs]
InClass(cls, c) == (c \in cls.cs) # cls.neg

\* The dot, without re.DOTALL
Dot == NotIn({"\n"})

\* One character of a class.
One(cls) == [t |-> "one", cls |-> cls]
\* cls* / cls+ (min 0 / 1), greedy or lazy (cls*?).
Many(cls, min, lazy) == [t |-> "many", cls |-> cls, min |-> min, lazy |-> lazy]
\* (?:re)?  greedy
Opt(re) == [t |-> "opt", re |-> re]
\* (?:re1|re2|...)
Alt(res) == [t |-> "alt", res |-> res]
\* (re) as capture group n
Grp(n, re) == [t |-> "grp", n |-> n, re |-> re]
\* (?:re)+  greedy
Plus(re) == [t |-> "plus", re |-> re]
\* A literal string: one node per character.
Lit(str) == [i \in 1..Len(str) |-> One(In({ch(str, i)}))]

RECURSIVE RunLen(_, _, _)
RunLen(cls, s, i) ==
    IF i <= Len(s) /\ InClass(cls, ch(s, i)) THEN 1 + RunLen(cls, s, i + 1) ELSE 0

\* MatchSeq(re, s, i, caps): every way the pattern re matches s starting at
\* position i, as [end |-> the position after the match, caps |-> the spans
\* of the capture groups], in the order a backtracking matcher finds them;
\* the first is the match Python reports.
RECURSIVE MatchSeq(_, _, _, _)
RECURSIVE MatchNode(_, _, _, _)
MatchNode(nd, s, i, caps) ==
    CASE nd.t = "one" ->
            IF i <= Len(s) /\ InClass(nd.cls, ch(s, i))
            THEN <<[end |-> i + 1, caps |-> caps]>>
            ELSE <<>>
      [] nd.t = "many" ->
            LET m == RunLen(nd.cls, s, i) IN
            IF m < nd.min THEN <<>>
            ELSE [j \in 1..(m - nd.min + 1) |->
                    [end |-> i + (IF nd.lazy THEN nd.min + j - 1 ELSE m - j + 1),
                     caps |-> caps]]
      [] nd.t = "opt" ->
            MatchSeq(nd.re, s, i, caps) \o <<[end |-> i, caps |-> caps]>>
      [] nd.t = "alt" ->
            ConcatAll([k \in 1..Len(nd.res) |-> MatchSeq(nd.res[k], s, i, caps)])
      [] nd.t = "grp" ->
            LET ms == MatchSeq(nd.re, s, i, caps) IN
            [k \in 1..Len(ms) |->
                [end |-> ms[k].end, caps |-> (nd.n :> <<i, ms[k].end>>) @@ ms[k].caps]]
      [] nd.t = "plus" ->
            LET ms == MatchSeq(nd.re, s, i, caps) IN
            ConcatAll([k \in 1..Len(ms) |->
                IF ms[k].end > i
                THEN MatchNode(nd, s, ms[k].end, ms[k].caps) \o <<ms[k]>>
                ELSE <<ms[k]>>])

MatchSeq(re, s, i, caps) ==
    IF Len(re) = 0 THEN <<[end |-> i, caps |-> caps]>>
    ELSE LET ms == MatchNode(Head(re), s, i, caps) IN
         ConcatAll([k \in 1..Len(ms) |-> MatchSeq(Tail(re), s, ms[k].end, ms[k].caps)])

\* Pattern.finditer: the non-overlapping matches from left to right, each
\* as [start, end, caps].  No pattern of the program matches the empty
\* string, so the search resumes at the end of each match.
RECURSIVE finditer(_, _, _)
finditer(re, s, i) ==
    IF i > Len(s) THEN <<>>
    ELSE LET ms == MatchSeq(re, s, i, <<>>) IN
         IF Len(ms) > 0
         THEN <<[start |-> i, end |-> ms[1].end, caps |-> ms[1].caps]>>
              \o finditer(re, s, ms[1].end)
         ELSE finditer(re, s, i + 1)

\* match.group(n); group 0 is the whole match.
group(s, m, n) ==
    IF n = 0 THEN SubSeq(s, m.start, m.end - 1)
    ELSE SubSeq(s, m.caps[n][1], m.caps[n][2] - 1)

\* match.expand of a replacement template: a sequence of [g, lit], the text
\* lit or (g > 0) the group \g.
expand(repl, s, m) ==
    concat([k \in 1..Len(repl) |->
        IF repl[k].g > 0 THEN group(s, m, repl[k].g) ELSE repl[k].lit])

T(lit) == [g |-> 0, lit |-> lit]
G(n) == [g |-> n, lit |-> ""]

\* s with each match ms[k] replaced by rs[k].
RECURSIVE splice(_, _, _, _, _)
splice(s, ms, rs, k, pos) ==
    IF k > Len(ms) THEN from(s, pos)
    ELSE SubSeq(s, pos, ms[k].start - 1) \o rs[k] \o splice(s, ms, rs, k + 1, ms[k].end)

\* Pattern.sub(template, s)
sub(re, repl, s) ==
    LET ms == finditer(re, s, 1) IN
    splice(s, ms, [k \in 1..Len(ms) |-> expand(repl, s, ms[k])], 1, 1)

\* Pattern.findall for a pattern without groups: the matched texts.
findall(re, s) ==
    LET ms == finditer(re, s, 1) IN [k \in 1..Len(ms) |-> group(s, ms[k], 0)]

(***************************************************************************)
(* The patterns of the program                                             *)
(***************************************************************************)

COMMENT_MARKER == "#!#comment:"

\* \[\[([^|\[\.]*?)\]\]
LINK_RE == Lit("[[") \o <<Grp(1, <<Many(NotIn({"|", "[", "."}), 0, TRUE)>>)>> \o Lit("]]")

\* \[\[([^\.]*?)\|(.*?)\]\]
LINK_DESCRIPTION_RE ==
    Lit("[[") \o <<Grp(1, <<Many(NotIn({"."}), 0, TRUE)>>)>> \o Lit("|")
    \o <<Grp(2, <<Many(Dot, 0, TRUE)>>)>> \o Lit("]]")

\* !?\[\[(?:[^|\[\]\.]*/)?([^/\]]+\.(EXT))\]\]  for the alternatives EXT
EmbedRe(exts) ==
    <<Opt(Lit("!"))>> \o Lit("[[")
    \o <<Opt(<<Many(NotIn({"|", "[", "]", "."}), 0, FALSE)>> \o Lit("/"))>>
    \o <<Grp(1, <<Many(NotIn({"/", "]"}), 1, FALSE)>> \o Lit(".") \o <<Grp(2, <<Alt(exts)>>)>>)>>
    \o Lit("]]")

\* (png|jpe?g|svg|gif)
IMAGE_RE ==
    EmbedRe(<<Lit("png"), Lit("jp") \o <<Opt(Lit("e"))>> \o Lit("g"), Lit("svg"), Lit("gif")>>)

\* (pdf|PDF)
PDF_RE == EmbedRe(<<Lit("pdf"), Lit("PDF")>>)

\* \[\[file:(.*?)\]\[(.*?)\]\]
FILE_LINK_RE ==
    Lit("[[file:") \o <<Grp(1, <<Many(Dot, 0, TRUE)>>)>> \o Lit("][")
    \o <<Grp(2, <<Many(Dot, 0, TRUE)>>)>> \o Lit("]]")

\* The three backquotes that open or close a fenced code block.  A TLA+
\* string cannot hold a backquote, so the model writes each one as a tilde;
\* the program treats neither character specially outside these literals.
FENCE == "~~~"

\* FENCE run-(.*)
RUN_RE == Lit(FENCE \o "run-") \o <<Grp(1, <<Many(Dot, 0, FALSE)>>)>>

\* (?:[^\s,"]|"(?:\\.|[^"])*")+
LIST_ITEM_RE ==
    <<Plus(<<Alt(<<
        <<One(NotIn(Whitespace \cup {",", "\""}))>>,
        Lit("\"")
          \o <<Opt(<<Plus(<<Alt(<< Lit("\\") \o <<One(Dot)>>, <<One(NotIn({"\""}))>> >>)>>)>>)>>
          \o Lit("\"")
    >>)>>)>>

(***************************************************************************)
(* The text rewrites                                                       *)
(***************************************************************************)

fix_markdown_code_blocks(markdown_contents) ==
    LET unrun == sub(RUN_RE, <<T(FENCE), G(1)>>, markdown_contents) IN
    replace(unrun, FENCE \o "sh", FENCE \o "shell")

\* What one chunk between two %% becomes (the else branch of the loop).
comment_chunk(chunk) ==
    IF contains(chunk, "\n")
    THEN LET all == splitlines_keep(chunk)
             lines == IF Len(all) > 0 /\ strip(all[1]) = "" THEN Tail(all) ELSE all
         IN concat([k \in 1..Len(lines) |-> COMMENT_MARKER \o lines[k]])
    ELSE "<!--" \o chunk \o "-->"

\* chunks alternate: outside a comment (odd index), inside one (even index).
fix_markdown_comments(markdown_contents) ==
    LET chunks == split(markdown_contents, "%%") IN
    concat([i \in 1..Len(chunks) |->
        IF i % 2 = 1 THEN chunks[i] ELSE comment_chunk(chunks[i])])

restore_comments(org_contents) ==
    LET lines == splitlines_keep(org_contents) IN
    concat([k \in 1..Len(lines) |-> replace(lines[k], COMMENT_MARKER, "# ")])

prepare_markdown_text(markdown_contents) ==
    fix_markdown_code_blocks(fix_markdown_comments(markdown_contents))

fix_links(org_contents) ==
    LET s1 == sub(LINK_RE, <<T("[[file:"), G(1), T(".org]["), G(1), T("]]")>>, org_contents)
        s2 == sub(LINK_DESCRIPTION_RE, <<T("[[file:"), G(1), T(".org]["), G(2), T("]]")>>, s1)
        s3 == sub(IMAGE_RE, <<T("[[org-roam-images:"), G(1), T("]]")>>, s2)
        s4 == sub(PDF_RE, <<T("[[org-roam-attachments:"), G(1), T("]]")>>, s3)
    IN replace(s4, "%20", " ")

\* pathlib.PurePath(p).stem for a relative path without "." or empty
\* components: the last component without its last suffix.
stem(p) ==
    LET name == from(p, rfind(p, "/", Len(p)) + 1)
        i == rfind(name, ".", Len(name))
    IN IF 1 < i /\ i < Len(name) THEN SubSeq(name, 1, i - 1) ELSE name

\* dict.get: the value of key k, "" standing for None.
get(nodes, k) == IF k \in DOMAIN nodes THEN nodes[k] ELSE ""

\* The inner function of convert_file_links_to_id_links.
replace_with_id(s, m, nodes) ==
    LET file_name == replace(group(s, m, 1), "%20", " ")
        node_id == get(nodes, stem(file_name))
    IN IF node_id = "" THEN group(s, m, 0)
       ELSE "[[id:" \o node_id \o "][" \o group(s, m, 2) \o "]]"

\* A Python value that is either a str or None.
Str(v) == [isStr |-> TRUE, val |-> v]
None == [isStr |-> FALSE, val |-> ""]

\* The function defines replace_with_id and ends: no return statement, so
\* every call returns None.
convert_file_links_to_id_links(org_contents, nodes) == None

(***************************************************************************)
(* Frontmatter and the header of a note                                    *)
(***************************************************************************)

\* A frontmatter value: a str or a list of str.
Scalar(s) == [isList |-> FALSE, s |-> s, l |-> <<>>]
List(l) == [isList |-> TRUE, s |-> "", l |-> l]

\* s[1:-1]
inner(s) == SubSeq(s, 2, Len(s) - 1)

maybeSplitList(s) ==
    IF Len(s) > 0 /\ (startswith(s, "[") \/ contains(s, ","))
    THEN List(findall(LIST_ITEM_RE, IF startswith(s, "[") THEN inner(s) ELSE s))
    ELSE Scalar(s)

\* The loop of get_keys from line i on (lines[i] here is lines[i-1] there).
\* The lines come from split("\n") and hold no "\n", and the loop leaves
\* only at a line equal to "---\n".
RECURSIVE get_keys_loop(_, _, _)
get_keys_loop(lines, i, frontmatter) ==
    IF i > Len(lines) THEN frontmatter
    ELSE IF lines[i] = "---\n" THEN frontmatter
    ELSE LET parts == split(lines[i], ":")
             key == parts[1]
             val == strip(join(":", Tail(parts)))
             val2 == IF key # "title" THEN maybeSplitList(val) ELSE Scalar(val)
             val3 == IF key \in {"tags", "aliases"} /\ ~val2.isList THEN List(<<val2.s>>) ELSE val2
         IN IF val = "" THEN get_keys_loop(lines, i + 1, frontmatter)
            ELSE get_keys_loop(lines, i + 1, (key :> val3) @@ frontmatter)

\* The dictionary of the keys set (a defaultdict: see lookup).
get_keys(content) ==
    LET lines == split(content, "\n") IN
    IF lines[1] # "---" THEN <<>> ELSE get_keys_loop(lines, 2, <<>>)

\* frontmatter[k] of the defaultdict(lambda: "").
lookup(frontmatter, k) == IF k \in DOMAIN frontmatter THEN frontmatter[k] ELSE Scalar("")

\* sep.join(v) for a frontmatter value: the items of a list, the characters
\* of a str (only "" occurs: tags and aliases are lists when present).
join_value(sep, v) ==
    IF v.isList THEN join(sep, v.l) ELSE join(sep, [i \in 1..Len(v.s) |-> ch(v.s, i)])

\* repr(x) of a str, for the characters a TLA+ string can hold.
py_repr(x) ==
    LET e1 == replace(x, "\\", "\\\\")
        e2 == replace(replace(replace(replace(e1, "\n", "\\n"), "\t", "\\t"), "\r", "\\r"), "\f", "\\x0c")
    IN IF contains(x, "'") /\ ~contains(x, "\"") THEN "\"" \o e2 \o "\""
       ELSE "'" \o replace(e2, "'", "\\'") \o "'"

\* str(v) of a frontmatter value, as an f-string formats it.
py_str(v) ==
    IF v.isList THEN "[" \o join(", ", [i \in 1..Len(v.l) |-> py_repr(v.l[i])]) \o "]" ELSE v.s

\* The title add_node_id writes.
title_of(basename, frontmatter) ==
    IF "title" \in DOMAIN frontmatter /\ ~startswith(basename, "@")
    THEN LET title == frontmatter["title"].s IN
         IF startswith(title, "\"") THEN inner(title) ELSE title
    ELSE basename

\* The text add_node_id writes to the org file whose text was contents.
add_node_id(contents, basename, node_id, frontmatter) ==
    LET tags == join_value(":", lookup(frontmatter, "tags"))
        aliases == join_value(" ", lookup(frontmatter, "aliases"))
    IN ":PROPERTIES:\n"
       \o ":ID: " \o node_id \o "\n"
       \o (IF aliases # "" THEN ":ROAM_ALIASES: " \o aliases \o "\n" ELSE "")
       \o (IF startswith(basename, "@") THEN ":ROAM_REFS: [cite:" \o basename \o "]\n" ELSE "")
       \o ":END:\n"
       \o "#+title: " \o title_of(basename, frontmatter) \o "\n"
       \o (IF "date-created" \in DOMAIN frontmatter
           THEN "#+created: [" \o py_str(frontmatter["date-created"]) \o "]\n" ELSE "")
       \o (IF tags # "" THEN "#+filetags: :" \o tags \o ":\n" ELSE "")
       \o "\n\n"
       \o contents

(***************************************************************************)
(* Paths                                                                   *)
(***************************************************************************)

\* PurePath.name, .parent and .suffix of a path p with "/" separators.
name(p) == from(p, rfind(p, "/", Len(p)) + 1)
parent(p) == SubSeq(p, 1, rfind(p, "/", Len(p)) - 1)
suffix(p) ==
    LET n == name(p)
        i == rfind(n, ".", Len(n))
    IN IF 1 < i /\ i < Len(n) THEN from(n, i) ELSE ""

\* PurePath.with_suffix(ext) of a path with a suffix.
with_suffix(p, ext) == SubSeq(p, 1, Len(p) - Len(suffix(p))) \o ext

\* path.relative_to(base) for a path under base.
relative_to(p, base) == from(p, Len(base) + 2)

\* re.search(pattern, s) for a pattern without special characters: a truthy
\* match exactly when the pattern occurs in s; the empty pattern (the
\* default of --skip_dirs) occurs in every string.
search(pattern, s) == contains(s, pattern)

\* The paths walk_directory(root) may yield next, given those it has
\* yielded: a file not yet yielded, inside the subdirectory being walked
\* while that one has files left (a subdirectory is walked to its end
\* before the walk returns to its parent).
NextPaths(files, yielded, root) ==
    LET left == files \ yielded
        open == {parent(p) : p \in {q \in left : parent(q) # root}}
                  \cap {parent(p) : p \in yielded}
    IN IF open # {} THEN {p \in left : parent(p) \in open} ELSE left

\* A loop that is left after its first file.
walk_exhausted_early(files, done) == files = {} \/ done # {}

\* The for loop over walk_directory ends when every file has been yielded.
walk_exhausted(files, done) == files \subseteq done

(***************************************************************************)
(* A run of convert_directory                                              *)
(***************************************************************************)

\* The most files a source tree holds.
MaxFiles == 3
SrcDir == "/vault"
OutDir == "/out"

\* The files a source tree is drawn from, relative to SrcDir, with the text
\* of each.
SourceText ==
    ("A.md" :> "---\ntitle: \"Alpha\"\ntags: t1, t2\n---\nsee [[B]]\n")
    @@ ("B.md" :> "see [[A|a]] %%c%%\n")
    @@ ("d1/A.md" :> "~~~sh\nls\n~~~\n")
    @@ ("d1/p.png" :> "<png>")
SourceFiles == DOMAIN SourceText

\* What the conversion engine may write for a note: it is a black box, so
\* any of these for any note.
EngineOutputs == {"see [[B]]\n", "see [[A|a]] #!#comment:c\n"}

\* The values of str(uuid.uuid4()).upper(): two notes may draw different
\* identifiers or, however unlikely, the same one.
Ids == {"ID1", "ID2"}

\* The values of --skip_dirs: the default, a directory, a pattern that
\* occurs in no path.
SkipPatterns == {"", "/d1/", "nomatch"}

VARIABLES
    tree,        \* the files of the source tree (relative paths)
    skip_dirs,   \* --skip_dirs
    image_dir,   \* --image_dir, "" when not given
    pdf_dir,     \* --pdf_dir, "" when not given
    pc,          \* "pass1", "pass2", "done", "abort" (an uncaught exception)
    err,         \* the exception that ended the run, "" when none
    yielded,     \* the source files the first loop has been given
    nodes,       \* the table: base name -> identifier
    fs,          \* the files written or found at the destinations: path -> text
    engine_log,  \* the engine's invocations, in order: [path, rc]
    yielded2,    \* the output files the second loop has been given
    read2,       \* the org files the second loop has read
    arg,         \* the argument of a function applied on its own
    ret          \* the results of the functions applied to arg, in order

runVars == <<tree, skip_dirs, image_dir, pdf_dir, pc, err, yielded, nodes, fs,
             engine_log, yielded2, read2>>
vars == <<tree, skip_dirs, image_dir, pdf_dir, pc, err, yielded, nodes, fs,
          engine_log, yielded2, read2, arg, ret>>

\* No function is applied on its own during a run.
NoCall == arg = <<>> /\ ret = <<>>

Init ==
    /\ tree \in {t \in SUBSET SourceFiles : Cardinality(t) <= MaxFiles}
    /\ skip_dirs \in SkipPatterns
    /\ \E given \in BOOLEAN :
          /\ image_dir = IF given THEN "/img" ELSE ""
          /\ pdf_dir = IF given THEN "/pdf" ELSE ""
    /\ pc = "pass1"
    /\ err = ""
    /\ yielded = {}
    /\ nodes = <<>>
    /\ fs \in {<<>>, (OutDir \o "/old.org") :> "[[file:A.org][A]]\n"}
    /\ engine_log = <<>>
    /\ yielded2 = {}
    /\ read2 = {}
    /\ NoCall

\* Where a file that is no note is copied to (lines 268-276).
copy_path(path) ==
    IF suffix(path) \in {".png", ".jpg", ".jpeg", ".svg", ".gif"} /\ image_dir # ""
    THEN image_dir \o "/" \o name(path)
    ELSE IF suffix(path) \in {".pdf", ".PDF"} /\ pdf_dir # ""
    THEN pdf_dir \o "/" \o name(path)
    ELSE OutDir \o "/" \o relative_to(path, SrcDir)

\* subprocess.run without check=True: the status is ignored.
raises_never(rc) == FALSE

\* subprocess.run(..., check=True) raises CalledProcessError on a status
\* other than 0.
raises(rc) == rc # 0

\* The text convert_markdown_file leaves in the org file, given what the
\* engine wrote there.
converted_text(engine_output) == fix_links(restore_comments(engine_output))

\* nodes = {key: node_id}: the table rebuilt with the one entry.
register_only(table, key, node_id) == (key :> node_id)

\* nodes[key] = node_id
register(table, key, node_id) == (key :> node_id) @@ table

\* path.write_text(text)
write(files, path, text) == (path :> text) @@ files

\* The first loop's continue at line 265: .DS_Store and the paths that
\* --skip_dirs matches.
Skip(rel) ==
    LET path == SrcDir \o "/" \o rel IN
    /\ pc = "pass1"
    /\ rel \in NextPaths(tree, yielded, "")
    /\ name(path) = ".DS_Store" \/ search(skip_dirs, path)
    /\ yielded' = yielded \cup {rel}
    /\ UNCHANGED <<tree, skip_dirs, image_dir, pdf_dir, pc, err, nodes, fs,
                   engine_log, yielded2, read2, arg, ret>>

\* Lines 267-280: a file that is no note is copied.
CopyAsset(rel) ==
    LET path == SrcDir \o "/" \o rel IN
    /\ pc = "pass1"
    /\ rel \in NextPaths(tree, yielded, "")
    /\ ~(name(path) = ".DS_Store" \/ search(skip_dirs, path))
    /\ suffix(path) # ".md"
    /\ yielded' = yielded \cup {rel}
    /\ fs' = write(fs, copy_path(path), SourceText[rel])
    /\ UNCHANGED <<tree, skip_dirs, image_dir, pdf_dir, pc, err, nodes,
                   engine_log, yielded2, read2, arg, ret>>

\* Lines 281-288: a note is converted, given its header and registered; the
\* engine's status rc and what it wrote are the engine's choice, the
\* identifier uuid4's.  A status other than 0 raises out of
\* convert_markdown_file and ends the run; the engine may by then have left
\* output at the path it was given (partial) or not.
ConvertNote(rel, rc, engine_output, node_id, partial) ==
    LET path == SrcDir \o "/" \o rel
        org_filename == with_suffix(relative_to(path, SrcDir), ".org")
        org_path == OutDir \o "/" \o org_filename
        frontmatter == get_keys(SourceText[rel])
    IN
    /\ pc = "pass1"
    /\ rel \in NextPaths(tree, yielded, "")
    /\ ~(name(path) = ".DS_Store" \/ search(skip_dirs, path))
    /\ suffix(path) = ".md"
    /\ yielded' = yielded \cup {rel}
    /\ engine_log' = Append(engine_log, [path |-> rel, rc |-> rc])
    /\ IF raises(rc)
       THEN /\ pc' = "abort"
            /\ err' = "CalledProcessError"
            /\ fs' = IF partial THEN write(fs, org_path, engine_output) ELSE fs
            /\ UNCHANGED nodes
       ELSE /\ nodes' = register(nodes, stem(org_filename), node_id)
            /\ fs' = write(fs, org_path,
                           add_node_id(converted_text(engine_output), stem(org_path),
                                       node_id, frontmatter))
            /\ UNCHANGED <<pc, err>>
    /\ UNCHANGED <<tree, skip_dirs, image_dir, pdf_dir, yielded2, read2, arg, ret>>

\* The first loop ends and the second begins.
EndPass1 ==
    /\ pc = "pass1"
    /\ walk_exhausted(tree, yielded)
    /\ pc' = "pass2"
    /\ UNCHANGED <<tree, skip_dirs, image_dir, pdf_dir, err, yielded, nodes, fs,
                   engine_log, yielded2, read2, arg, ret>>

\* The files under the output directory.
OutFiles == {p \in DOMAIN fs : startswith(p, OutDir \o "/")}

\* The second loop's continue at line 292.
SkipNonOrg(org_path) ==
    /\ pc = "pass2"
    /\ org_path \in NextPaths(OutFiles, yielded2, OutDir)
    /\ name(org_path) = ".DS_Store" \/ suffix(org_path) # ".org"
    /\ yielded2' = yielded2 \cup {org_path}
    /\ UNCHANGED <<tree, skip_dirs, image_dir, pdf_dir, pc, err, yielded, nodes, fs,
                   engine_log, read2, arg, ret>>

\* Lines 294-296: an org file is read and written back with its links
\* resolved.  write_text raises TypeError, before it opens the file, when
\* it is given None.
ResolveLinks(org_path) ==
    LET contents == fs[org_path]
        resolved == convert_file_links_to_id_links(contents, nodes)
    IN
    /\ pc = "pass2"
    /\ org_path \in NextPaths(OutFiles, yielded2, OutDir)
    /\ ~(name(org_path) = ".DS_Store" \/ suffix(org_path) # ".org")
    /\ yielded2' = yielded2 \cup {org_path}
    /\ read2' = read2 \cup {org_path}
    /\ IF resolved.isStr
       THEN /\ fs' = write(fs, org_path, resolved.val)
            /\ UNCHANGED <<pc, err>>
       ELSE /\ pc' = "abort"
            /\ err' = "TypeError"
            /\ UNCHANGED fs
    /\ UNCHANGED <<tree, skip_dirs, image_dir, pdf_dir, yielded, nodes, engine_log,
                   arg, ret>>

\* The second loop ends, and the run with it.
EndPass2 ==
    /\ pc = "pass2"
    /\ walk_exhausted(OutFiles, yielded2)
    /\ pc' = "done"
    /\ UNCHANGED <<tree, skip_dirs, image_dir, pdf_dir, err, yielded, nodes, fs,
                   engine_log, yielded2, read2, arg, ret>>

Next ==
    \/ \E rel \in SourceFiles : Skip(rel)
    \/ \E rel \in SourceFiles : CopyAsset(rel)
    \/ \E rel \in SourceFiles, rc \in {0, 1}, out \in EngineOutputs, id \in Ids,
          partial \in BOOLEAN :
          ConvertNote(rel, rc, out, id, partial)
    \/ EndPass1
    \/ \E p \in DOMAIN fs : SkipNonOrg(p)
    \/ \E p \in DOMAIN fs : ResolveLinks(p)
    \/ EndPass2

Spec == Init /\ [][Next]_vars

(***************************************************************************)
(* The functions applied on their own                                      *)
(*                                                                         *)
(* Each specification below draws an argument, arg, and applies functions  *)
(* to it, collecting their results in ret.  No run is under way.           *)
(***************************************************************************)

NoRun ==
    /\ tree = {} /\ skip_dirs = "" /\ image_dir = "" /\ pdf_dir = ""
    /\ pc = "fn" /\ err = "" /\ yielded = {} /\ nodes = <<>> /\ fs = <<>>
    /\ engine_log = <<>> /\ yielded2 = {} /\ read2 = {}

\* The most segments a text is put together from.
MaxSegs == 3
\* The most lines between the frontmatter delimiters, and after them.
MaxFmLines == 2
MaxBodyLines == 1

\* The sequences of at most n elements of S.
Seqs(S, n) == UNION {[1..k -> S] : k \in 0..n}

\* ---- convert_file_links_to_id_links ----

IdLinkSegs ==
    {"[[file:Note A.org][a]]", "[[file:Note%20A.org][b]]", "[[file:Note B.org][c]]",
     " and ", "[[id:Q][d]]"}

Tables ==
    {<<>>, ("Note A" :> "ID1"), ("Note A" :> "ID1") @@ ("Note B" :> "ID2")}

InitIdLinks ==
    /\ NoRun
    /\ \E segs \in Seqs(IdLinkSegs, MaxSegs), table \in Tables :
          arg = [text |-> concat(segs), nodes |-> table]
    /\ ret = <<>>

CallConvertFileLinks ==
    /\ pc = "fn" /\ Len(ret) = 0
    /\ ret' = <<convert_file_links_to_id_links(arg.text, arg.nodes)>>
    /\ UNCHANGED <<runVars, arg>>

SpecIdLinks == InitIdLinks /\ [][CallConvertFileLinks]_vars

\* ---- fix_links ----

Seg(kind, a, b) == [kind |-> kind, a |-> a, b |-> b]

\* Wiki-links, links already in org form, and the text around them.
WikiSegs ==
    {Seg("bare", "Note", ""), Seg("bare", "My Note", ""),
     Seg("labeled", "Note", "Label"),
     Seg("org", "http://example.com", "site"), Seg("org", "id:X", "x"),
     Seg("text", " and ", ""), Seg("text", "\n", "")}

\* Embeds of a file b under a directory prefix a ("" for none), written
\* with or without the leading "!".
EmbedPrefixes == {"", "attachments", "a/b", "my.dir", "my docs"}
EmbedFiles == {"pic.png", "scan.jpeg", "doc.pdf"}
EmbedSegs ==
    {Seg(kind, d, f) : kind \in {"embed", "!embed"}, d \in EmbedPrefixes, f \in EmbedFiles}

SegText(seg) ==
    CASE seg.kind = "bare" -> "[[" \o seg.a \o "]]"
      [] seg.kind = "labeled" -> "[[" \o seg.a \o "|" \o seg.b \o "]]"
      [] seg.kind = "org" -> "[[" \o seg.a \o "][" \o seg.b \o "]]"
      [] seg.kind = "text" -> seg.a
      [] seg.kind \in {"embed", "!embed"} ->
            (IF seg.kind = "!embed" THEN "!" ELSE "") \o "[["
            \o (IF seg.a = "" THEN "" ELSE seg.a \o "/") \o seg.b \o "]]"

SegsText(segs) == concat([k \in 1..Len(segs) |-> SegText(segs[k])])

InitLinks ==
    /\ NoRun
    /\ \E segs \in Seqs(WikiSegs, MaxSegs) \cup {<<e>> : e \in EmbedSegs} :
          arg = [segs |-> segs, text |-> SegsText(segs)]
    /\ ret = <<>>

CallFixLinks ==
    /\ pc = "fn" /\ Len(ret) = 0
    /\ ret' = <<fix_links(arg.text)>>
    /\ UNCHANGED <<runVars, arg>>

SpecLinks == InitLinks /\ [][CallFixLinks]_vars

\* ---- fix_markdown_comments, restore_comments ----

\* Text, a one-line comment, and comments of several lines: the markers on
\* lines of their own, or on the first and last line of the comment.
CommentSegs ==
    {[kind |-> "text", src |-> "foo", lines |-> <<>>],
     [kind |-> "text", src |-> "\n", lines |-> <<>>],
     [kind |-> "inline", src |-> "%%comment%%", lines |-> <<"comment">>],
     [kind |-> "block", src |-> "%%\nmulti\nline\n%%", lines |-> <<"multi", "line">>],
     [kind |-> "block", src |-> "%%multi\nline%%", lines |-> <<"multi", "line">>]}

InitComments ==
    /\ NoRun
    /\ \E segs \in Seqs(CommentSegs, MaxSegs) :
          arg = [segs |-> segs, text |-> concat([k \in 1..Len(segs) |-> segs[k].src])]
    /\ ret = <<>>

CallFixComments ==
    /\ pc = "fn" /\ Len(ret) = 0
    /\ ret' = <<fix_markdown_comments(arg.text)>>
    /\ UNCHANGED <<runVars, arg>>

\* restore_comments on what the engine made of the marked text, the engine
\* leaving it as it is.
CallRestoreComments ==
    /\ pc = "fn" /\ Len(ret) = 1
    /\ ret' = Append(ret, restore_comments(ret[1]))
    /\ UNCHANGED <<runVars, arg>>

NextComments == CallFixComments \/ CallRestoreComments

SpecComments == InitComments /\ [][NextComments]_vars

\* ---- fix_markdown_code_blocks ----

\* The opening line of a fenced block with a language tag, the closing
\* line (no tag), and a line of code.
FenceSegs ==
    {[kind |-> "fence", tag |-> t] : t \in {"run-python", "sh", "shell", "python", ""}}
    \cup {[kind |-> "code", tag |-> "ls -lt"]}

FenceText(seg) == (IF seg.kind = "fence" THEN FENCE ELSE "") \o seg.tag \o "\n"

InitCodeBlocks ==
    /\ NoRun
    /\ \E segs \in Seqs(FenceSegs, MaxSegs) :
          arg = [segs |-> segs, text |-> concat([k \in 1..Len(segs) |-> FenceText(segs[k])])]
    /\ ret = <<>>

CallFixCodeBlocks ==
    /\ pc = "fn" /\ Len(ret) = 0
    /\ ret' = <<fix_markdown_code_blocks(arg.text)>>
    /\ UNCHANGED <<runVars, arg>>

CallFixCodeBlocksAgain ==
    /\ pc = "fn" /\ Len(ret) = 1
    /\ ret' = Append(ret, fix_markdown_code_blocks(ret[1]))
    /\ UNCHANGED <<runVars, arg>>

NextCodeBlocks == CallFixCodeBlocks \/ CallFixCodeBlocksAgain

SpecCodeBlocks == InitCodeBlocks /\ [][NextCodeBlocks]_vars

\* ---- get_keys, add_node_id ----

FirstLines == {"---", "# Heading"}
FmLines ==
    {"title: \"Quoted\"", "title: \"Open", "title: Plain", "tags: t1, t2", "aliases: x"}
BodyLines == {"text", "title: Body", "note: see"}
Basenames == {"Note", "@ref"}

\* The text of a note: a first line, the lines up to the closing delimiter
\* (when there is one), the lines after it.
NoteText(a) ==
    join("\n", <<a.first>> \o a.fm \o (IF a.closed THEN <<"---">> ELSE <<>>) \o a.body) \o "\n"

InitHeader ==
    /\ NoRun
    /\ \E first \in FirstLines, fm \in Seqs(FmLines, MaxFmLines), closed \in BOOLEAN,
          body \in Seqs(BodyLines, MaxBodyLines), basename \in Basenames :
          arg = [first |-> first, fm |-> fm, closed |-> closed, body |-> body,
                 basename |-> basename]
    /\ ret = <<>>

CallGetKeys ==
    /\ pc = "fn" /\ Len(ret) = 0
    /\ ret' = <<get_keys(NoteText(arg))>>
    /\ UNCHANGED <<runVars, arg>>

\* add_node_id on an org file named after the note, with the frontmatter
\* get_keys returned.
CallAddNodeId ==
    /\ pc = "fn" /\ Len(ret) = 1
    /\ ret' = Append(ret, add_node_id("body\n", arg.basename, "ID1", ret[1]))
    /\ UNCHANGED <<runVars, arg>>

NextHeader == CallGetKeys \/ CallAddNodeId

SpecHeader == InitHeader /\ [][NextHeader]_vars

(***************************************************************************)
(* The claims                                                              *)
(***************************************************************************)

\* ---- C1 ----

\* What the claim says a file-link becomes: with X the text between "file:"
\* and ".org", "%20" decoded, the id-link of nodes[X] when X is a key of
\* the table, the link itself when it is not.
ResolvedLink(s, m, table) ==
    LET target == group(s, m, 1)
        base == replace(SubSeq(target, 1, Len(target) - Len(".org")), "%20", " ")
    IN IF endswith(target, ".org") /\ base \in DOMAIN table
       THEN "[[id:" \o table[base] \o "][" \o group(s, m, 2) \o "]]"
       ELSE group(s, m, 0)

ResolvedText(s, table) ==
    LET ms == finditer(FILE_LINK_RE, s, 1) IN
    splice(s, ms, [k \in 1..Len(ms) |-> ResolvedLink(s, ms[k], table)], 1, 1)

\* C1: convert_file_links_to_id_links(text, nodes) returns the text with
\* each file-link whose base name is a key of the table turned into the
\* id-link of the table's value, same label, and everything else unchanged.
C1_ReturnsResolvedText ==
    Len(ret) = 1 => ret[1] = Str(ResolvedText(arg.text, arg.nodes))

\* ---- C2 ----

Skipped(rel) == name(rel) = ".DS_Store" \/ search(skip_dirs, SrcDir \o "/" \o rel)
IsNote(rel) == suffix(rel) = ".md" /\ ~Skipped(rel)
OrgPath(rel) == OutDir \o "/" \o with_suffix(rel, ".org")

\* The engine was run on the note with status 0.
Converted(rel) == \E i \in 1..Len(engine_log) : engine_log[i] = [path |-> rel, rc |-> 0]

\* The note's org file starts with the property drawer and its identifier.
HasHeader(rel) ==
    OrgPath(rel) \in DOMAIN fs /\ startswith(fs[OrgPath(rel)], ":PROPERTIES:\n:ID: ")

\* The second loop has begun: it has been given a file, or has read one.
Pass2Begun == pc \in {"pass2", "done"} \/ yielded2 # {} \/ read2 # {}

\* C2: once the link resolution pass has begun (and so whenever it reads or
\* rewrites an org file), the traversal of the source tree is over and every
\* note the run converts (every .md file that --skip_dirs does not exclude)
\* has been converted, has its header and is in the table.
C2_ResolutionAfterConversion ==
    Pass2Begun =>
        /\ yielded = tree
        /\ \A rel \in tree : IsNote(rel) =>
              Converted(rel) /\ HasHeader(rel) /\ stem(rel) \in DOMAIN nodes

\* Note A links to note B, B was converted after A, and the second pass has
\* read A's org file, B being in the table.
C2_ForwardLinkRead ==
    /\ engine_log = <<[path |-> "A.md", rc |-> 0], [path |-> "B.md", rc |-> 0]>>
    /\ OrgPath("A.md") \in read2
    /\ contains(fs[OrgPath("A.md")], "[[file:B.org][B]]")
    /\ "B" \in DOMAIN nodes

\* ---- C3 ----

\* The engine has returned a status other than 0 for some note.
EngineFailed == \E i \in 1..Len(engine_log) : engine_log[i].rc # 0

\* The note the engine was last run on.
LastNote == engine_log[Len(engine_log)].path

\* C3: the step in which the engine returns a status other than 0 ends the
\* run, adds no table entry, gives the note no header and writes no other
\* file; from then on nothing happens: no note is converted or registered,
\* no asset copied, no engine invocation, no step of the link resolution
\* pass.
C3_EngineFailureAborts ==
    [][/\ (EngineFailed' /\ ~EngineFailed) =>
              /\ pc' = "abort"
              /\ nodes' = nodes
              /\ ~HasHeader(LastNote)'
              /\ \A p \in DOMAIN fs' \ {OrgPath(LastNote')} :
                    p \in DOMAIN fs /\ fs'[p] = fs[p]
              /\ yielded2' = {} /\ read2' = {}
       /\ EngineFailed => UNCHANGED vars]_vars

\* The engine failed on a note, the run is over, and a note and an asset of
\* the tree have not been reached.
C3_FailureWithFilesLeft ==
    /\ pc = "abort"
    /\ EngineFailed
    /\ \E rel \in tree \ yielded : IsNote(rel)
    /\ \E rel \in tree \ yielded : suffix(rel) # ".md" /\ ~Skipped(rel)

\* ---- C4 ----

\* C4 as stated: in every step of a run, over any tree, every base name of
\* the table stays mapped to the identifier it had.
C4_EntriesNeverChange ==
    [][\A k \in DOMAIN nodes : k \in DOMAIN nodes' /\ nodes'[k] = nodes[k]]_vars

\* The step converts a note of base name k, a different note of that base
\* name having been converted before.
OverwritesEntry(k) ==
    /\ Len(engine_log') = Len(engine_log) + 1
    /\ LET last == engine_log'[Len(engine_log')] IN
       /\ last.rc = 0
       /\ stem(last.path) = k
       /\ \E i \in 1..Len(engine_log) :
             /\ engine_log[i].rc = 0
             /\ engine_log[i].path # last.path
             /\ stem(engine_log[i].path) = k

\* C4 amended: no step removes a base name from the table; a step changes
\* the identifier of a base name only by converting another note of the
\* same base name (so never in a tree whose notes have distinct base names);
\* and outside the conversion pass no step changes the table at all.
C4_TableGrowsOrIsOverwritten ==
    [][/\ DOMAIN nodes \subseteq DOMAIN nodes'
       /\ \A k \in DOMAIN nodes : nodes'[k] # nodes[k] => OverwritesEntry(k)
       /\ pc # "pass1" => nodes' = nodes]_vars

\* Two notes named A were converted, the second under another identifier,
\* and the link resolution pass has read a file with the table in place.
C4_CollisionThenResolution ==
    /\ Converted("A.md") /\ Converted("d1/A.md")
    /\ read2 # {}
    /\ \E p \in {OrgPath("A.md"), OrgPath("d1/A.md")} :
          ~startswith(fs[p], ":PROPERTIES:\n:ID: " \o nodes["A"] \o "\n")

\* ---- C5 ----

\* The key of a frontmatter line.
KeyOf(line) == split(line, ":")[1]

\* C5: get_keys returns no key unless the first line is "---"; and when the
\* frontmatter is closed by a "---" line the mapping is the one of the lines
\* between the delimiters: every key is the key of one of them, and the
\* lines after the closing delimiter change nothing.
C5_KeysFromFrontmatterOnly ==
    Len(ret) >= 1 =>
        /\ arg.first # "---" => DOMAIN ret[1] = {}
        /\ (arg.first = "---" /\ arg.closed) =>
              /\ DOMAIN ret[1] \subseteq {KeyOf(arg.fm[i]) : i \in 1..Len(arg.fm)}
              /\ ret[1] = get_keys(join("\n", <<arg.first>> \o arg.fm))

\* ---- C6 ----

\* The text of the "#+title: " line of a header.
TitleLine(text) ==
    LET start == find(text, ":END:\n#+title: ", 1) + Len(":END:\n#+title: ")
    IN SubSeq(text, start, find(text, "\n", start) - 1)

\* The title the claim gives: one pair of surrounding double quotes removed,
\* nothing removed otherwise.
Unquoted(title) ==
    IF Len(title) >= 2 /\ startswith(title, "\"") /\ endswith(title, "\"")
    THEN inner(title) ELSE title

\* C6: the title line carries the base name for a note whose base name
\* starts with "@" or whose frontmatter has no title, and else the
\* frontmatter title, one surrounding pair of double quotes removed when
\* the value starts and ends with one, no character removed otherwise.
C6_TitleLine ==
    Len(ret) = 2 =>
        TitleLine(ret[2]) =
            IF "title" \in DOMAIN ret[1] /\ ~startswith(arg.basename, "@")
            THEN Unquoted(ret[1]["title"].s)
            ELSE arg.basename

\* ---- C7 ----

\* What the claim says each link becomes, by the link's own kind.
PerLink(seg) ==
    CASE seg.kind = "bare" -> "[[file:" \o seg.a \o ".org][" \o seg.a \o "]]"
      [] seg.kind = "labeled" -> "[[file:" \o seg.a \o ".org][" \o seg.b \o "]]"
      [] OTHER -> SegText(seg)

IsWikiText(segs) == \A k \in 1..Len(segs) : segs[k] \in WikiSegs

\* C7: fix_links of a text of wiki-links, org links and plain text is the
\* per-link results joined by the unchanged text: bare links and labeled
\* links become file links, links already in org form stay as they are.
C7_LinksRewrittenOneByOne ==
    (Len(ret) = 1 /\ IsWikiText(arg.segs)) =>
        ret[1] = concat([k \in 1..Len(arg.segs) |-> PerLink(arg.segs[k])])

\* ---- C8 ----

\* C8: the embed of an image (a PDF) under any directory prefix becomes the
\* images (attachments) link of the bare file name.
C8_EmbedPrefixDiscarded ==
    (Len(ret) = 1 /\ Len(arg.segs) = 1 /\ arg.segs[1] \in EmbedSegs) =>
        ret[1] = (IF suffix(arg.segs[1].b) \in {".pdf", ".PDF"}
                  THEN "[[org-roam-attachments:" ELSE "[[org-roam-images:")
                 \o arg.segs[1].b \o "]]"

\* ---- C9 ----

\* C9: after fix_markdown_comments and restore_comments no sentinel is
\* left, each one-line comment has become <!--comment-->, each line of a
\* comment of several lines has become a line "# " followed by that line
\* and nothing else, and the text outside the comments is still there.
C9_CommentRoundTrip ==
    Len(ret) = 2 =>
        LET out == ret[2]
            outLines == split(out, "\n")
        IN /\ ~contains(out, COMMENT_MARKER)
           /\ \A k \in 1..Len(arg.segs) :
                 LET seg == arg.segs[k] IN
                 CASE seg.kind = "text" -> contains(out, seg.src)
                   [] seg.kind = "inline" -> contains(out, "<!--" \o seg.lines[1] \o "-->")
                   [] seg.kind = "block" ->
                         \A i \in 1..Len(seg.lines) :
                            \E j \in 1..Len(outLines) : outLines[j] = "# " \o seg.lines[i]

\* ---- C10 ----

\* The tag the claim gives a fence: LANG for run-LANG, shell for sh, the
\* tag itself otherwise.
ClaimedTag(tag) ==
    IF startswith(tag, "run-") THEN from(tag, Len("run-") + 1)
    ELSE IF tag = "sh" THEN "shell"
    ELSE tag

\* C10: fix_markdown_code_blocks changes the fences tagged run-LANG and sh
\* and no other line, and applying it twice gives what applying it once
\* gives.
C10_OnlyRunAndShChange ==
    /\ Len(ret) >= 1 =>
          ret[1] = concat([k \in 1..Len(arg.segs) |->
                        IF arg.segs[k].kind = "fence"
                        THEN FENCE \o ClaimedTag(arg.segs[k].tag) \o "\n"
                        ELSE FenceText(arg.segs[k])])
    /\ Len(ret) = 2 => ret[2] = ret[1]

====
